---- MODULE Spec2Model ----
(***************************************************************************)
(* Model of the law-article search engine (src/src/lib/search.ts): the     *)
(* LawSearch singleton (initialize, search, buildQueryMeta, matchItem,     *)
(* scoreMatch, normalize, applyFilters, clearSearchCache).                 *)
(*                                                                         *)
(* A JavaScript string is a sequence of characters; a character is a       *)
(* one-element TLA+ string ("a", " ", "\"") or a named code point          *)
(* ("e_acute" is U+00E9, "comb_acute" is U+0301, "grave" is U+0060).      *)
(***************************************************************************)
EXTENDS Integers, Sequences, FiniteSets, TLC

(***************************************************************************)
(* Characters                                                              *)
(***************************************************************************)
LowerLetters ==
    {"a","b","c","d","e","f","g","h","i","j","k","l","m",
     "n","o","p","q","r","s","t","u","v","w","x","y","z"}

UpperLetters ==
    {"A","B","C","D","E","F","G","H","I","J","K","L","M",
     "N","O","P","Q","R","S","T","U","V","W","X","Y","Z"}

DigitChars == {"0","1","2","3","4","5","6","7","8","9"}

\* \s of a JavaScript regular expression (the members the model uses)
IsWhitespace(c) == c \in {" ", "\t", "\n"}

\* the characters "." of a regular expression does not match
IsLineTerminator(c) == c = "\n"

\* \w of a JavaScript regular expression without the u flag
IsWordChar(c) == c \in LowerLetters \cup UpperLetters \cup DigitChars \cup {"_"}

\* String.prototype.toLowerCase on one character
LowerChar(c) ==
    CASE c = "A" -> "a" [] c = "B" -> "b" [] c = "C" -> "c" [] c = "D" -> "d"
      [] c = "E" -> "e" [] c = "F" -> "f" [] c = "G" -> "g" [] c = "H" -> "h"
      [] c = "I" -> "i" [] c = "J" -> "j" [] c = "K" -> "k" [] c = "L" -> "l"
      [] c = "M" -> "m" [] c = "N" -> "n" [] c = "O" -> "o" [] c = "P" -> "p"
      [] c = "Q" -> "q" [] c = "R" -> "r" [] c = "S" -> "s" [] c = "T" -> "t"
      [] c = "U" -> "u" [] c = "V" -> "v" [] c = "W" -> "w" [] c = "X" -> "x"
      [] c = "Y" -> "y" [] c = "Z" -> "z"
      [] c = "E_acute" -> "e_acute"
      [] OTHER -> c

\* canonical decomposition (NFD) of one character
DecomposeChar(c) ==
    CASE c = "e_acute" -> <<"e", "comb_acute">>
      [] c = "E_acute" -> <<"E", "comb_acute">>
      [] OTHER -> <<c>>

\* \p{Diacritic} (the members the model uses: U+0301, U+005E, U+0060)
IsDiacritic(c) == c \in {"comb_acute", "^", "grave"}

(***************************************************************************)
(* String primitives                                                       *)
(***************************************************************************)
RECURSIVE NFD(_)
NFD(s) == IF s = <<>> THEN <<>> ELSE DecomposeChar(Head(s)) \o NFD(Tail(s))

RECURSIVE StripDiacritics(_)
StripDiacritics(s) ==
    IF s = <<>> THEN <<>>
    ELSE IF IsDiacritic(Head(s)) THEN StripDiacritics(Tail(s))
    ELSE <<Head(s)>> \o StripDiacritics(Tail(s))

ToLowerCase(s) == [i \in 1..Len(s) |-> LowerChar(s[i])]

RECURSIVE DropWhitespace(_)
DropWhitespace(s) ==
    IF s # <<>> /\ IsWhitespace(Head(s)) THEN DropWhitespace(Tail(s)) ELSE s

\* .replace(/\s+/g, ' ')
RECURSIVE CollapseWhitespace(_)
CollapseWhitespace(s) ==
    IF s = <<>> THEN <<>>
    ELSE IF IsWhitespace(Head(s))
         THEN <<" ">> \o CollapseWhitespace(DropWhitespace(s))
         ELSE <<Head(s)>> \o CollapseWhitespace(Tail(s))

RECURSIVE DropTrailingWhitespace(_)
DropTrailingWhitespace(s) ==
    IF s # <<>> /\ IsWhitespace(s[Len(s)])
    THEN DropTrailingWhitespace(SubSeq(s, 1, Len(s) - 1))
    ELSE s

\* String.prototype.trim
Trim(s) == DropTrailingWhitespace(DropWhitespace(s))

\* String.prototype.startsWith / endsWith for a one-character argument
StartsWithChar(s, c) == s # <<>> /\ s[1] = c
EndsWithChar(s, c) == s # <<>> /\ s[Len(s)] = c

\* String.prototype.slice(1, -1)
Slice1Minus1(s) == IF Len(s) <= 2 THEN <<>> ELSE SubSeq(s, 2, Len(s) - 1)

\* Array.prototype.slice(0, n)
SliceFirst(seq, n) == SubSeq(seq, 1, IF Len(seq) < n THEN Len(seq) ELSE n)

\* Array.prototype.join(' ') over a sequence of strings
RECURSIVE JoinSpace(_)
JoinSpace(parts) ==
    IF parts = <<>> THEN <<>>
    ELSE IF Len(parts) = 1 THEN parts[1]
    ELSE parts[1] \o <<" ">> \o JoinSpace(Tail(parts))

\* .split(/\s+/).filter(token => token.length > 0)
RECURSIVE SplitTokens(_)
SplitTokens(s) ==
    LET t == DropWhitespace(s)
        WordLen == IF \E i \in 1..Len(t) : IsWhitespace(t[i])
                   THEN (CHOOSE i \in 1..Len(t) :
                            /\ IsWhitespace(t[i])
                            /\ \A j \in 1..(i - 1) : ~IsWhitespace(t[j])) - 1
                   ELSE Len(t)
    IN  IF t = <<>> THEN <<>>
        ELSE <<SubSeq(t, 1, WordLen)>> \o SplitTokens(SubSeq(t, WordLen + 1, Len(t)))

\* String.prototype.includes after toLowerCase on both sides
IncludesLower(hay, needle) ==
    LET h == ToLowerCase(hay)
        n == ToLowerCase(needle)
    IN  \E i \in 0..(Len(h) - Len(n)) : SubSeq(h, i + 1, i + Len(n)) = n

(***************************************************************************)
(* Numbers and their decimal text                                          *)
(***************************************************************************)
DigitOf(d) ==
    CASE d = 0 -> "0" [] d = 1 -> "1" [] d = 2 -> "2" [] d = 3 -> "3"
      [] d = 4 -> "4" [] d = 5 -> "5" [] d = 6 -> "6" [] d = 7 -> "7"
      [] d = 8 -> "8" [] d = 9 -> "9"

DigitValue(c) == CHOOSE d \in 0..9 : DigitOf(d) = c

\* `${n}` for a non-negative integer n
RECURSIVE NumberToString(_)
NumberToString(n) ==
    IF n < 10 THEN <<DigitOf(n)>>
    ELSE NumberToString(n \div 10) \o <<DigitOf(n % 10)>>

\* parseInt on a string of decimal digits
RECURSIVE ParseInt(_)
ParseInt(ds) ==
    IF Len(ds) = 1 THEN DigitValue(ds[1])
    ELSE 10 * ParseInt(SubSeq(ds, 1, Len(ds) - 1)) + DigitValue(ds[Len(ds)])

IsDigits(s) == s # <<>> /\ \A i \in 1..Len(s) : s[i] \in DigitChars

(***************************************************************************)
(* Regular expressions.  A compiled RegExp is kept as the text that the    *)
(* code interpolates into its source; the Test operators interpret the     *)
(* fixed part of each source.  All patterns carry the i flag.              *)
(***************************************************************************)
RegexMetaChars == {".", "*", "+", "?", "^", "$", "{", "}", "(", ")", "|", "[", "]", "\\"}

\* string.replace(/[.*+?^${}()|[\]\\]/g, '\\$&')
RECURSIVE escapeRegex(_)
escapeRegex(s) ==
    IF s = <<>> THEN <<>>
    ELSE (IF Head(s) \in RegexMetaChars THEN <<"\\", Head(s)>> ELSE <<Head(s)>>)
         \o escapeRegex(Tail(s))

\* The atoms of an interpolated source: "\" followed by a character is that
\* character taken literally, a bare "." is any character but a line
\* terminator, everything else stands for itself.
RECURSIVE ParseAtoms(_)
ParseAtoms(src) ==
    IF src = <<>> THEN <<>>
    ELSE IF Head(src) = "\\" /\ Len(src) >= 2
         THEN <<[any |-> FALSE, ch |-> src[2]]>> \o ParseAtoms(SubSeq(src, 3, Len(src)))
    ELSE IF Head(src) = "."
         THEN <<[any |-> TRUE, ch |-> "."]>> \o ParseAtoms(Tail(src))
    ELSE <<[any |-> FALSE, ch |-> Head(src)]>> \o ParseAtoms(Tail(src))

\* the atoms match the text at offset i (0-based), ignoring case
MatchAtomsAt(atoms, s, i) ==
    /\ i + Len(atoms) <= Len(s)
    /\ \A k \in 1..Len(atoms) :
          IF atoms[k].any THEN ~IsLineTerminator(s[i + k])
          ELSE LowerChar(atoms[k].ch) = LowerChar(s[i + k])

\* \b at offset p of s (between s[p] and s[p+1])
WordBoundaryAt(s, p) ==
    LET before == p >= 1 /\ IsWordChar(s[p])
        after == p < Len(s) /\ IsWordChar(s[p + 1])
    IN  before # after

\* \b<src>\b at offset i
WholeWordAt(src, s, i) ==
    LET atoms == ParseAtoms(src)
    IN  /\ WordBoundaryAt(s, i)
        /\ MatchAtomsAt(atoms, s, i)
        /\ WordBoundaryAt(s, i + Len(atoms))

\* the test of the whole-word pattern without its two \b
TestWholeWord_Substring(src, s) ==
    \E i \in 0..Len(s) : MatchAtomsAt(ParseAtoms(src), s, i)

\* new RegExp(`\\b${src}\\b`, 'i').test(s)
TestWholeWord(src, s) == \E i \in 0..Len(s) : WholeWordAt(src, s, i)

ArticleWord == <<"a", "r", "t", "i", "c", "l", "e">>

\* article\s*<num>(?=[^\d]|$) at offset i
ArticleNumberAt(num, s, i) ==
    /\ MatchAtomsAt(ParseAtoms(ArticleWord), s, i)
    /\ \E k \in 0..(Len(s) - i - Len(ArticleWord)) :
          LET d == i + Len(ArticleWord) + k
          IN  /\ \A j \in (i + Len(ArticleWord) + 1)..d : IsWhitespace(s[j])
              /\ MatchAtomsAt(ParseAtoms(num), s, d)
              /\ (d + Len(num) = Len(s) \/ s[d + Len(num) + 1] \notin DigitChars)

\* new RegExp(`\\barticle\\s*${n}(?=[^\\d]|$)`, 'i').test(s)
TestArticlePattern(num, s) ==
    \E i \in 0..Len(s) : WordBoundaryAt(s, i) /\ ArticleNumberAt(num, s, i)

\* new RegExp(`^article\\s*${n}(?=[^\\d]|$)`, 'i').test(s)
TestArticleStartPattern(num, s) == ArticleNumberAt(num, s, 0)

\* new RegExp(src, 'i').test(s)
TestQuotedPhrase(src, s) ==
    LET atoms == ParseAtoms(src)
    IN  \E i \in 0..Len(s) : MatchAtomsAt(atoms, s, i)

\* the lookaheads joined by alternation: one term is enough
TestAndTerms_AnyTerm(srcs, s) ==
    \E p \in 0..Len(s) :
        \E t \in 1..Len(srcs) :
            \E i \in p..Len(s) :
                /\ \A j \in (p + 1)..i : ~IsLineTerminator(s[j])
                /\ WholeWordAt(srcs[t], s, i)

\* new RegExp(srcs.map(t => `(?=.*\\b${t}\\b)`).join(''), 'i').test(s)
TestAndTerms(srcs, s) ==
    \E p \in 0..Len(s) :
        \A t \in 1..Len(srcs) :
            \E i \in p..Len(s) :
                /\ \A j \in (p + 1)..i : ~IsLineTerminator(s[j])
                /\ WholeWordAt(srcs[t], s, i)

\* s.match(/^article\s*(\d+)$/i): the set holding capture group 1, or {}
ArticleMatch(s) ==
    IF MatchAtomsAt(ParseAtoms(ArticleWord), s, 0)
    THEN LET rest == DropWhitespace(SubSeq(s, Len(ArticleWord) + 1, Len(s)))
         IN  IF IsDigits(rest) THEN {rest} ELSE {}
    ELSE {}

(***************************************************************************)
(* normalize (with its cache)                                              *)
(***************************************************************************)
\* the computation of a cache miss
\* the diacritics removed in front of the decomposition instead of behind it
NormalizeText_StripBeforeDecompose(text) ==
    Trim(CollapseWhitespace(ToLowerCase(NFD(StripDiacritics(text)))))

NormalizeText(text) ==
    Trim(CollapseWhitespace(ToLowerCase(StripDiacritics(NFD(text)))))

\* normalize(text) read against the cache c
normalize(c, text) ==
    IF text \in DOMAIN c THEN c[text] ELSE NormalizeText(text)

\* the cache filled with the text as it came instead of the normalized text
CacheAfter_StoresRaw(c, keys) ==
    [k \in DOMAIN c \cup keys |-> IF k \in DOMAIN c THEN c[k] ELSE k]

\* the cache after normalize was called on every text of keys
CacheAfter(c, keys) ==
    [k \in DOMAIN c \cup keys |-> IF k \in DOMAIN c THEN c[k] ELSE NormalizeText(k)]

(***************************************************************************)
(* Data.  An optional value (a field that may be undefined) is a set with  *)
(* at most one element.                                                    *)
(***************************************************************************)
None == {}
Some(v) == {v}
The(o) == CHOOSE v \in o : TRUE

\* a record of law.json (LawArticle without its label)
MkArticle(n, title, text, chapter, part, tags, lawSource) ==
    [article |-> n, title |-> title, text |-> text, chapter |-> chapter,
     part |-> part, tags |-> tags, lawSource |-> lawSource,
     articleNumberLabel |-> None, isNull |-> FALSE]

\* a null element of the parsed array; {...null} is an object without fields
NullRecord ==
    [article |-> 0, title |-> <<>>, text |-> <<>>, chapter |-> <<>>,
     part |-> <<>>, tags |-> <<>>, lawSource |-> None,
     articleNumberLabel |-> None, isNull |-> TRUE]

\* the filters argument of search; defined = FALSE is an omitted argument
MkFilters(chapter, part, tags, lawSource) ==
    [defined |-> TRUE, chapter |-> chapter, part |-> part, tags |-> tags,
     lawSource |-> lawSource]

NoFilters ==
    [defined |-> FALSE, chapter |-> None, part |-> None, tags |-> None,
     lawSource |-> None]

(***************************************************************************)
(* buildQueryMeta                                                          *)
(***************************************************************************)
NoPatterns ==
    [wholeWord |-> None, articlePattern |-> None, articleStartPattern |-> None,
     quotedPhrase |-> None, andTerms |-> None]

\* buildQueryMeta with the test for quotes in front of the other branches
buildQueryMeta_QuotedFirst(c, query) ==
    LET isQuoted == StartsWithChar(query, "\"") /\ EndsWithChar(query, "\"")
        unquotedQuery == IF isQuoted THEN Slice1Minus1(query) ELSE query
        normalizedUnquoted == normalize(c, unquotedQuery)
        articleMatch == ArticleMatch(normalizedUnquoted)
        isArticlePattern == articleMatch # {}
        articleNumber == IF isArticlePattern THEN Some(ParseInt(The(articleMatch)))
                         ELSE None
        tokens == SplitTokens(normalizedUnquoted)
        regexPatterns ==
            IF isQuoted
            THEN [NoPatterns EXCEPT !.quotedPhrase = Some(escapeRegex(normalizedUnquoted))]
            ELSE IF Len(tokens) = 1 /\ ~isArticlePattern
            THEN [NoPatterns EXCEPT !.wholeWord = Some(escapeRegex(tokens[1]))]
            ELSE IF isArticlePattern /\ articleNumber # None
            THEN [NoPatterns EXCEPT
                    !.articlePattern = Some(NumberToString(The(articleNumber))),
                    !.articleStartPattern = Some(NumberToString(The(articleNumber)))]
            ELSE IF Len(tokens) > 1
            THEN [NoPatterns EXCEPT
                    !.andTerms = Some([i \in 1..Len(tokens) |-> escapeRegex(tokens[i])])]
            ELSE NoPatterns
    IN  [originalQuery |-> query,
         normalizedQuery |-> normalizedUnquoted,
         isQuoted |-> isQuoted,
         isArticlePattern |-> isArticlePattern,
         articleNumber |-> articleNumber,
         tokens |-> tokens,
         regexPatterns |-> regexPatterns]

buildQueryMeta(c, query) ==
    LET isQuoted == StartsWithChar(query, "\"") /\ EndsWithChar(query, "\"")
        unquotedQuery == IF isQuoted THEN Slice1Minus1(query) ELSE query
        normalizedUnquoted == normalize(c, unquotedQuery)
        articleMatch == ArticleMatch(normalizedUnquoted)
        isArticlePattern == articleMatch # {}
        articleNumber == IF isArticlePattern THEN Some(ParseInt(The(articleMatch)))
                         ELSE None
        tokens == SplitTokens(normalizedUnquoted)
        regexPatterns ==
            IF Len(tokens) = 1 /\ ~isArticlePattern
            THEN [NoPatterns EXCEPT !.wholeWord = Some(escapeRegex(tokens[1]))]
            ELSE IF isArticlePattern /\ articleNumber # None
            THEN [NoPatterns EXCEPT
                    !.articlePattern = Some(NumberToString(The(articleNumber))),
                    !.articleStartPattern = Some(NumberToString(The(articleNumber)))]
            ELSE IF isQuoted
            THEN [NoPatterns EXCEPT !.quotedPhrase = Some(escapeRegex(normalizedUnquoted))]
            ELSE IF Len(tokens) > 1
            THEN [NoPatterns EXCEPT
                    !.andTerms = Some([i \in 1..Len(tokens) |-> escapeRegex(tokens[i])])]
            ELSE NoPatterns
    IN  [originalQuery |-> query,
         normalizedQuery |-> normalizedUnquoted,
         isQuoted |-> isQuoted,
         isArticlePattern |-> isArticlePattern,
         articleNumber |-> articleNumber,
         tokens |-> tokens,
         regexPatterns |-> regexPatterns]

\* the texts buildQueryMeta passes to normalize
QueryCacheKeys(query) ==
    {query,
     IF StartsWithChar(query, "\"") /\ EndsWithChar(query, "\"")
     THEN Slice1Minus1(query) ELSE query}

(***************************************************************************)
(* matchItem and scoreMatch                                                *)
(***************************************************************************)
RECURSIVE FilterBoolean(_)
FilterBoolean(parts) ==
    IF parts = <<>> THEN <<>>
    ELSE IF Head(parts) = <<>> THEN FilterBoolean(Tail(parts))
    ELSE <<Head(parts)>> \o FilterBoolean(Tail(parts))

\* the text getNormalizedSearchableText passes to normalize
SearchableFields(article) ==
    JoinSpace(FilterBoolean(
        <<article.title, article.text, article.chapter, article.part>> \o article.tags))

getNormalizedSearchableText(c, article) == normalize(c, SearchableFields(article))

LabelText(article) ==
    IF article.articleNumberLabel = None THEN <<>> ELSE The(article.articleNumberLabel)

\* the texts matchItem and scoreMatch pass to normalize for one article
ArticleCacheKeys(article) ==
    {SearchableFields(article), article.title, LabelText(article)}

\* matchItem without the comparison of article.article with the number asked for
matchItem_PatternOnly(c, article, queryMeta) ==
    LET regexPatterns == queryMeta.regexPatterns
        searchableText == getNormalizedSearchableText(c, article)
        normalizedTitle == normalize(c, article.title)
    IN  IF queryMeta.isArticlePattern /\ queryMeta.articleNumber # None
        THEN /\ regexPatterns.articlePattern # None
             /\ \/ TestArticlePattern(The(regexPatterns.articlePattern), normalizedTitle)
                \/ TestArticlePattern(The(regexPatterns.articlePattern), searchableText)
        ELSE IF regexPatterns.quotedPhrase # None
        THEN TestQuotedPhrase(The(regexPatterns.quotedPhrase), searchableText)
        ELSE IF regexPatterns.wholeWord # None
        THEN TestWholeWord(The(regexPatterns.wholeWord), searchableText)
        ELSE IF regexPatterns.andTerms # None
        THEN TestAndTerms(The(regexPatterns.andTerms), searchableText)
        ELSE FALSE

matchItem(c, article, queryMeta) ==
    LET regexPatterns == queryMeta.regexPatterns
        searchableText == getNormalizedSearchableText(c, article)
        normalizedTitle == normalize(c, article.title)
    IN  IF queryMeta.isArticlePattern /\ queryMeta.articleNumber # None
        THEN \/ article.article = The(queryMeta.articleNumber)
             \/ /\ regexPatterns.articlePattern # None
                /\ \/ TestArticlePattern(The(regexPatterns.articlePattern), normalizedTitle)
                   \/ TestArticlePattern(The(regexPatterns.articlePattern), searchableText)
        ELSE IF regexPatterns.quotedPhrase # None
        THEN TestQuotedPhrase(The(regexPatterns.quotedPhrase), searchableText)
        ELSE IF regexPatterns.wholeWord # None
        THEN TestWholeWord(The(regexPatterns.wholeWord), searchableText)
        ELSE IF regexPatterns.andTerms # None
        THEN TestAndTerms(The(regexPatterns.andTerms), searchableText)
        ELSE FALSE

ScoreExactNumber == 1000
ScoreArticleStart == 800
ScoreArticleTitle == 600
ScoreArticleText == 400
ScorePhraseTitle == 500
ScorePhraseText == 300
ScoreWordTitle == 400
ScoreWordText == 200
ScoreAndText == 150
\* the title tier of the AND ladder flattened onto the text tier
ScoreAndTitle_Flat == ScoreAndText
ScoreAndTitle == 300

scoreMatch(c, article, queryMeta) ==
    LET regexPatterns == queryMeta.regexPatterns
        searchableText == getNormalizedSearchableText(c, article)
        normalizedTitle == normalize(c, article.title)
    IN  IF queryMeta.isArticlePattern /\ queryMeta.articleNumber # None
        THEN (IF article.article = The(queryMeta.articleNumber)
              THEN ScoreExactNumber ELSE 0)
           + (IF /\ regexPatterns.articleStartPattern # None
                 /\ TestArticleStartPattern(The(regexPatterns.articleStartPattern),
                                            normalizedTitle)
              THEN ScoreArticleStart ELSE 0)
           + (IF /\ regexPatterns.articlePattern # None
                 /\ TestArticlePattern(The(regexPatterns.articlePattern), normalizedTitle)
              THEN ScoreArticleTitle ELSE 0)
           + (IF /\ regexPatterns.articlePattern # None
                 /\ TestArticlePattern(The(regexPatterns.articlePattern), searchableText)
              THEN ScoreArticleText ELSE 0)
        ELSE IF regexPatterns.quotedPhrase # None
        THEN IF TestQuotedPhrase(The(regexPatterns.quotedPhrase), normalizedTitle)
             THEN ScorePhraseTitle
             ELSE IF TestQuotedPhrase(The(regexPatterns.quotedPhrase), searchableText)
             THEN ScorePhraseText ELSE 0
        ELSE IF regexPatterns.wholeWord # None
        THEN IF TestWholeWord(The(regexPatterns.wholeWord), normalizedTitle)
             THEN ScoreWordTitle
             ELSE IF TestWholeWord(The(regexPatterns.wholeWord), searchableText)
             THEN ScoreWordText ELSE 0
        ELSE IF regexPatterns.andTerms # None
        THEN IF TestAndTerms(The(regexPatterns.andTerms), normalizedTitle)
             THEN ScoreAndTitle
             ELSE IF TestAndTerms(The(regexPatterns.andTerms), searchableText)
             THEN ScoreAndText ELSE 0
        ELSE 0

(***************************************************************************)
(* applyFilters                                                            *)
(***************************************************************************)
RECURSIVE SelectSeqBy(_, _)
\* Array.prototype.filter with the predicate given as the set of kept elements
SelectSeqBy(seq, keep) ==
    IF seq = <<>> THEN <<>>
    ELSE IF Head(seq) \in keep THEN <<Head(seq)>> \o SelectSeqBy(Tail(seq), keep)
    ELSE SelectSeqBy(Tail(seq), keep)

Elements(seq) == {seq[i] : i \in 1..Len(seq)}

\* filters.chapter, filters.part, filters.lawSource are truthy
Truthy(o) == o # None /\ The(o) # <<>>

ChapterPasses(result, filters) ==
    Truthy(filters.chapter) => IncludesLower(result.chapter, The(filters.chapter))

PartPasses(result, filters) ==
    Truthy(filters.part) => IncludesLower(result.part, The(filters.part))

\* the tags predicate comparing whole tags, case-sensitively
TagsPass_WholeTag(result, filters) ==
    (filters.tags # None /\ Len(The(filters.tags)) > 0) =>
        \E t \in 1..Len(The(filters.tags)) :
            \E a \in 1..Len(result.tags) :
                result.tags[a] = The(filters.tags)[t]

TagsPass(result, filters) ==
    (filters.tags # None /\ Len(The(filters.tags)) > 0) =>
        \E t \in 1..Len(The(filters.tags)) :
            \E a \in 1..Len(result.tags) :
                IncludesLower(result.tags[a], The(filters.tags)[t])

LawSourcePasses(result, filters) ==
    Truthy(filters.lawSource) => result.lawSource = filters.lawSource

applyFilters(results, filters) ==
    IF ~filters.defined THEN results
    ELSE LET r1 == SelectSeqBy(results, {r \in Elements(results) : ChapterPasses(r, filters)})
             r2 == SelectSeqBy(r1, {r \in Elements(r1) : PartPasses(r, filters)})
             r3 == SelectSeqBy(r2, {r \in Elements(r2) : TagsPass(r, filters)})
             r4 == SelectSeqBy(r3, {r \in Elements(r3) : LawSourcePasses(r, filters)})
         IN  r4

(***************************************************************************)
(* search                                                                  *)
(***************************************************************************)
\* a browse prefix one article short
BrowseCount_OneShort == 2 + 1
BrowseCount == 4

\* { ...article } of the empty-query branch: no score, no matchType
CopyOf(article) == article @@ [score |-> None, matchType |-> None]

ExactResult(article, score) ==
    article @@ [score |-> Some(score), matchType |-> Some("exact")]

\* Fuse reports scores of its own; the model keeps the order and drops them
FuzzyResult(article) ==
    article @@ [score |-> Some(0), matchType |-> Some("fuzzy")]

\* the comparator of search: (b.score || 0) - (a.score || 0)
CompareScore(a, b) == The(b.score) - The(a.score)

\* Array.prototype.sort is stable: an element goes behind every element the
\* comparator does not put after it
RECURSIVE SortResults(_)
SortResults(seq) ==
    IF seq = <<>> THEN <<>>
    ELSE LET init == SortResults(SubSeq(seq, 1, Len(seq) - 1))
             x == seq[Len(seq)]
             k == Cardinality({i \in 1..Len(init) : CompareScore(init[i], x) <= 0})
         IN  SubSeq(init, 1, k) \o <<x>> \o SubSeq(init, k + 1, Len(init))

\* the outcome of a call: a returned array or a thrown TypeError
Returned(value) == [threw |-> FALSE, value |-> value]
Threw == [threw |-> TRUE, value |-> <<>>]

\* the orders in which Fuse may report items 1..n: any sequence without repetition
FuseOrders(n, maxResults) ==
    {o \in UNION {[1..k -> 1..n] : k \in 0..(IF n < maxResults THEN n ELSE maxResults)} :
        \A i, j \in DOMAIN o : i # j => o[i] # o[j]}

\* the articles the exact scan visits before it stops: all of them, or those
\* in front of the first null element
ScannedItems(items) ==
    IF \E i \in 1..Len(items) : items[i].isNull
    THEN SubSeq(items, 1, (CHOOSE i \in 1..Len(items) :
                              /\ items[i].isNull
                              /\ \A j \in 1..(i - 1) : ~items[j].isNull) - 1)
    ELSE items

\* search up to its call of applyFilters, on the collection arts with cache
\* c: what it throws, returns at once (the empty-query branch) or hands to
\* applyFilters; fuseOrder is the answer of the Fuse index (fuzzy path only)
searchResults(c, arts, fuseBuilt, query, useFuzzy, fuseOrder) ==
    LET cleanQuery == Trim(query)
        items == arts.items
        queryMeta == buildQueryMeta(c, cleanQuery)
        matched == SelectSeqBy(items, {a \in Elements(items) : matchItem(c, a, queryMeta)})
        exactMatches == [i \in 1..Len(matched) |->
                            ExactResult(matched[i], scoreMatch(c, matched[i], queryMeta))]
    IN  IF cleanQuery = <<>>
        THEN IF arts.kind = "array"
             THEN [threw |-> FALSE, filter |-> FALSE,
                   value |-> [i \in 1..Len(SliceFirst(items, BrowseCount)) |-> CopyOf(items[i])]]
             ELSE [threw |-> TRUE, filter |-> FALSE, value |-> <<>>]
        ELSE IF useFuzzy /\ fuseBuilt
        THEN [threw |-> FALSE, filter |-> TRUE,
              value |-> [i \in 1..Len(fuseOrder) |-> FuzzyResult(items[fuseOrder[i]])]]
        ELSE IF arts.kind # "array" \/ \E i \in 1..Len(items) : items[i].isNull
        THEN [threw |-> TRUE, filter |-> FALSE, value |-> <<>>]
        ELSE [threw |-> FALSE, filter |-> TRUE, value |-> SortResults(exactMatches)]

\* search(query, filters, useFuzzy)
search(c, arts, fuseBuilt, query, filters, useFuzzy, fuseOrder) ==
    LET results == searchResults(c, arts, fuseBuilt, query, useFuzzy, fuseOrder)
    IN  IF results.threw THEN Threw
        ELSE IF results.filter THEN Returned(applyFilters(results.value, filters))
        ELSE Returned(results.value)

\* the array search passes to applyFilters, if it gets there
searchFilterArg(c, arts, fuseBuilt, query, useFuzzy, fuseOrder) ==
    LET results == searchResults(c, arts, fuseBuilt, query, useFuzzy, fuseOrder)
    IN  IF results.filter THEN Some(results.value) ELSE None

\* the cache after that call
searchCache(c, arts, fuseBuilt, query, useFuzzy) ==
    LET cleanQuery == Trim(query)
        scanned == ScannedItems(arts.items)
    IN  IF cleanQuery = <<>> \/ (useFuzzy /\ fuseBuilt) THEN c
        ELSE CacheAfter(c, QueryCacheKeys(cleanQuery)
                           \cup UNION {ArticleCacheKeys(scanned[i]) : i \in 1..Len(scanned)})

(***************************************************************************)
(* Inputs: the texts of the records of law.json, the queries and the       *)
(* filters the model draws from                                            *)
(***************************************************************************)
StrFairTrial == <<"F", "a", "i", "r", " ", "T", "r", "i", "a", "l">>
StrArticle5Trial == <<"A", "r", "t", "i", "c", "l", "e", " ", "5", " ", "T", "r", "i", "a", "l">>
StrOnArticle5 == <<"O", "n", " ", "A", "r", "t", "i", "c", "l", "e", " ", "5">>
StrFair == <<"F", "a", "i", "r">>
StrLaw == <<"L", "a", "w">>
StrSeeArticle25 == <<"s", "e", "e", " ", "A", "r", "t", "i", "c", "l", "e", " ", "2", "5">>
StrThisArticle == <<"t", "h", "i", "s", " ", "a", "r", "t", "i", "c", "l", "e">>
StrArt == <<"a", "r", "t">>
StrTrialFairLines == <<"t", "r", "i", "a", "l", "\n", " ", "f", "a", "i", "r">>
StrATrial == <<"a", " ", "t", "r", "i", "a", "l">>
StrArtDot5 == <<"s", "e", "e", " ", "a", "r", "t", ".", " ", "5">>
StrCh1 == <<"C", "h", "1">>
StrCh2 == <<"C", "h", "2">>
StrPart1 == <<"P", "a", "r", "t", "1">>
StrRights == <<"R", "i", "g", "h", "t", "s">>
StrPenal == <<"P", "e", "n", "a", "l">>
QEmpty == <<>>
QSpace == <<" ">>
QArticle5 == <<"A", "r", "t", "i", "c", "l", "e", " ", "5">>
QArticle25 == <<"a", "r", "t", "i", "c", "l", "e", " ", " ", "2", "5">>
QArticle2 == <<"A", "r", "t", "i", "c", "l", "e", " ", "2">>
Q25 == <<"2", "5">>
QArtDot5 == <<"a", "r", "t", ".", " ", "5">>
QArt == <<"a", "r", "t">>
QTrial == <<"T", "r", "i", "a", "l">>
QFairTrial == <<"f", "a", "i", "r", " ", "t", "r", "i", "a", "l">>
QTrialFair == <<"t", "r", "i", "a", "l", " ", "f", "a", "i", "r">>
QQuotedFairTrial == <<"\"", "f", "a", "i", "r", " ", "t", "r", "i", "a", "l", "\"">>
QArticle5Joined == <<"a", "r", "t", "i", "c", "l", "e", "5">>
QLawTrial == <<"l", "a", "w", " ", "t", "r", "i", "a", "l">>
QArtDot == <<"a", "r", "t", ".">>
QQuotedTrial == <<"\"", "T", "r", "i", "a", "l", "\"">>
QQuotedArt == <<"\"", "a", "r", "t", "\"">>
QQuotedArticle5 == <<"\"", "A", "r", "t", "i", "c", "l", "e", " ", "5", "\"">>
QQuotedArticle5Joined == <<"\"", "a", "r", "t", "i", "c", "l", "e", "5", "\"">>
FCh1 == <<"c", "h", "1">>
FCH2 == <<"C", "H", "2">>
FPart == <<"p", "a", "r", "t">>
FRights == <<"r", "i", "g", "h", "t", "s">>

\* the records law.json may hold; identifiers are unique
ArticlePool ==
    {MkArticle(5, StrFairTrial, StrSeeArticle25, StrCh1, StrPart1, <<StrRights>>, None),
     MkArticle(25, StrFairTrial, StrThisArticle, StrCh2, StrPart1, <<>>, Some(StrPenal)),
     MkArticle(2, StrArticle5Trial, StrArt, StrCh1, <<>>, <<StrLaw, StrRights>>, None),
     MkArticle(7, StrOnArticle5, StrTrialFairLines, StrCh2, StrPart1, <<>>, Some(StrPenal)),
     MkArticle(1, StrFair, StrATrial, StrCh1, StrPart1, <<StrRights>>, Some(<<>>)),
     MkArticle(12, StrLaw, StrArtDot5, StrCh2, <<>>, <<StrLaw>>, None)}

QueryPool ==
    {QEmpty, QSpace, QArticle5, QArticle25, QArticle2, Q25, QArtDot5, QArt, QTrial,
     QFairTrial, QTrialFair, QQuotedFairTrial, QArticle5Joined, QLawTrial, QArtDot, StrLaw,
     QQuotedTrial, QQuotedArt, QQuotedArticle5, QQuotedArticle5Joined}

\* the queries tried with every filter set; the others go without filters
FilterQueryPool == {QEmpty, QSpace, QTrial, QArticle5}

\* the queries tried with useFuzzy = true (the Fuse path does not classify them)
FuzzyQueryPool == {QEmpty, QSpace, QTrial}

\* the queries tried before the collection is loaded
PreloadQueryPool == {QEmpty, QSpace, StrLaw}

FilterPool ==
    {NoFilters,
     MkFilters(None, None, None, None),
     MkFilters(Some(FCh1), None, None, None),
     MkFilters(None, Some(FPart), Some(<<>>), None),
     MkFilters(None, None, Some(<<FRights>>), None),
     MkFilters(None, None, None, Some(StrPenal)),
     MkFilters(None, None, None, Some(<<>>)),
     MkFilters(Some(FCH2), None, None, Some(StrPenal))}

\* the filters tried with useFuzzy = true
FuzzyFilterPool ==
    {NoFilters,
     MkFilters(None, None, Some(<<FRights>>), None),
     MkFilters(None, None, None, Some(StrPenal))}

\* bounds of the model
MaxArticles == 2
MaxCacheSize == 1
MaxFuseResults == 2

\* the arrays of well-formed records law.json may hold
ShortCollections ==
    {s \in UNION {[1..k -> ArticlePool] : k \in 0..MaxArticles} :
        \A i, j \in DOMAIN s : i # j => s[i].article # s[j].article}

\* the whole pool, in two load orders
LongCollections ==
    LET byNumber(n) == CHOOSE a \in ArticlePool : a.article = n
    IN  {<<byNumber(5), byNumber(25), byNumber(2), byNumber(7), byNumber(1), byNumber(12)>>,
         <<byNumber(12), byNumber(7), byNumber(25), byNumber(1), byNumber(5), byNumber(2)>>}

Collections == ShortCollections \cup LongCollections

\* arrays holding a null element
NullCollections ==
    {<<NullRecord>>} \cup {<<a, NullRecord>> : a \in ArticlePool}

(***************************************************************************)
(* State                                                                   *)
(***************************************************************************)
VARIABLES
    pc,               \* position of initialize(): "new", "fetching", "parsing", "ready", "failed"
    articles,         \* this.articles: [kind, items]; kind "object" is a parsed non-array
    fuse,             \* this.fuse !== null
    normalizedCache,  \* this.normalizedCache
    call,             \* the call of the engine in progress, with its arguments
    filterArg,        \* the array that call handed to applyFilters, if any
    out,              \* what that call returned or threw
    page,             \* the Index page: its React state, its debounce timers, its toasts
    storage,          \* localStorage: the item 'law-search-history', if set
    added             \* the queries searchHistory stored since the store was last empty

vars == <<pc, articles, fuse, normalizedCache, call, filterArg, out, page, storage, added>>

\* what the engine leaves alone
outerVars == <<page, storage, added>>

EmptyCache == [k \in {} |-> <<>>]

NoCall == [op |-> "none", query |-> <<>>, filters |-> NoFilters, useFuzzy |-> FALSE,
           fuseOrder |-> <<>>]
NoOut == Returned(<<>>)

ArrayOf(items) == [kind |-> "array", items |-> items]
NonArray == [kind |-> "object", items |-> <<>>]

\* the Index component before it is mounted
NoPage ==
    [phase |-> "unmounted", query |-> <<>>, filters |-> MkFilters(None, None, None, None),
     results |-> <<>>, articles |-> <<>>, loadErrors |-> 0, searchErrors |-> 0,
     armed |-> None, fresh |-> None, ran |-> None, changes |-> 0]

Init ==
    /\ pc = "new"
    /\ articles = ArrayOf(<<>>)
    /\ fuse = FALSE
    /\ normalizedCache = EmptyCache
    /\ call = NoCall
    /\ filterArg = None
    /\ out = NoOut
    /\ page = NoPage
    /\ storage = None
    /\ added = <<>>

(***************************************************************************)
(* initialize(): fetch, parse, label, index                                *)
(***************************************************************************)
\* this.articles.map(article => ({...article, articleNumberLabel: `Article ${article.article}`}))
WithLabel(article) ==
    [article EXCEPT !.articleNumberLabel =
        Some(<<"A", "r", "t", "i", "c", "l", "e", " ">> \o NumberToString(article.article))]

\* initialize() is called and waits for fetch('/law.json')
initialize ==
    /\ pc = "new"
    /\ call.op = "none"
    /\ pc' = "fetching"
    /\ UNCHANGED <<articles, fuse, normalizedCache, call, filterArg, out>>
    /\ UNCHANGED outerVars

\* fetch resolves; initialize() waits for response.json()
fetchResolved ==
    /\ pc = "fetching"
    /\ call.op = "none"
    /\ pc' = "parsing"
    /\ UNCHANGED <<articles, fuse, normalizedCache, call, filterArg, out>>
    /\ UNCHANGED outerVars

\* fetch rejects; the catch block returns []
fetchRejected ==
    /\ pc = "fetching"
    /\ call.op = "none"
    /\ pc' = "failed"
    /\ UNCHANGED <<articles, fuse, normalizedCache, call, filterArg, out>>
    /\ UNCHANGED outerVars

\* response.json() rejects (the body is not JSON); the catch block returns []
jsonRejected ==
    /\ pc = "parsing"
    /\ call.op = "none"
    /\ pc' = "failed"
    /\ UNCHANGED <<articles, fuse, normalizedCache, call, filterArg, out>>
    /\ UNCHANGED outerVars

\* response.json() resolves with an array of records: labelled and indexed
jsonResolvedWith(bodies) ==
    /\ pc = "parsing"
    /\ call.op = "none"
    /\ \E body \in bodies :
          articles' = ArrayOf([i \in 1..Len(body) |-> WithLabel(body[i])])
    /\ fuse' = TRUE
    /\ pc' = "ready"
    /\ UNCHANGED <<normalizedCache, call, filterArg, out>>
    /\ UNCHANGED outerVars

jsonResolved == jsonResolvedWith(Collections)

\* what the promise of initialize() settles with: the labelled articles, or
\* the [] of its catch block; it never rejects
initializeResult ==
    [rejected |-> FALSE, value |-> IF pc = "ready" THEN articles.items ELSE <<>>]

\* response.json() resolves with an array holding null: this.articles is
\* assigned, the labelling map throws on null.article, the catch block returns []
jsonResolvedNullRecord ==
    /\ pc = "parsing"
    /\ call.op = "none"
    /\ \E body \in NullCollections : articles' = ArrayOf(body)
    /\ pc' = "failed"
    /\ UNCHANGED <<fuse, normalizedCache, call, filterArg, out>>
    /\ UNCHANGED outerVars

\* response.json() resolves with a value that is no array: this.articles is
\* assigned, this.articles.map is not a function, the catch block returns []
jsonResolvedNonArray ==
    /\ pc = "parsing"
    /\ call.op = "none"
    /\ articles' = NonArray
    /\ pc' = "failed"
    /\ UNCHANGED <<fuse, normalizedCache, call, filterArg, out>>
    /\ UNCHANGED outerVars

(***************************************************************************)
(* The calls of the engine                                                 *)
(***************************************************************************)
\* the arguments of a call of search: while the load is under way the
\* collection is empty and a few queries stand for all; the Fuse path takes
\* the queries and filters of its own pools
SearchInputs ==
    {in \in [query : QueryPool, filters : FilterPool, useFuzzy : BOOLEAN] :
        /\ pc \in {"new", "fetching", "parsing"} => in.query \in PreloadQueryPool
        /\ in.useFuzzy => in.query \in FuzzyQueryPool /\ in.filters \in FuzzyFilterPool
        /\ ~in.useFuzzy => in.filters = NoFilters \/ in.query \in FilterQueryPool}

\* lawSearch.search(query, filters, useFuzzy)
searchCall ==
    /\ call.op = "none"
    /\ Cardinality(DOMAIN normalizedCache) <= MaxCacheSize
    /\ \E in \in SearchInputs :
       \E fuseOrder \in (IF in.useFuzzy /\ fuse /\ Trim(in.query) # <<>>
                         THEN FuseOrders(Len(articles.items), MaxFuseResults) ELSE {<<>>}) :
          /\ call' = [op |-> "search", query |-> in.query, filters |-> in.filters,
                      useFuzzy |-> in.useFuzzy, fuseOrder |-> fuseOrder]
          /\ out' = search(normalizedCache, articles, fuse, in.query, in.filters,
                           in.useFuzzy, fuseOrder)
          /\ filterArg' = searchFilterArg(normalizedCache, articles, fuse, in.query,
                                          in.useFuzzy, fuseOrder)
          /\ normalizedCache' = searchCache(normalizedCache, articles, fuse, in.query,
                                            in.useFuzzy)
    /\ UNCHANGED <<pc, articles, fuse>>
    /\ UNCHANGED outerVars

\* the caller is done with the returned array (or with the exception)
callDone ==
    /\ call.op # "none"
    /\ call' = NoCall
    /\ filterArg' = None
    /\ out' = NoOut
    /\ UNCHANGED <<pc, articles, fuse, normalizedCache>>
    /\ UNCHANGED outerVars

\* lawSearch.clearSearchCache()
clearSearchCache ==
    /\ call.op = "none"
    /\ normalizedCache' = EmptyCache
    /\ UNCHANGED <<pc, articles, fuse, call, filterArg, out>>
    /\ UNCHANGED outerVars

Next ==
    \/ initialize
    \/ fetchResolved
    \/ fetchRejected
    \/ jsonRejected
    \/ jsonResolved
    \/ jsonResolvedNullRecord
    \/ jsonResolvedNonArray
    \/ searchCall
    \/ callDone
    \/ clearSearchCache

Spec == Init /\ [][Next]_vars

(***************************************************************************)
(* The Index page (src/src/pages/Index.tsx): its state, the debounce timer *)
(* its render arms, the effect that cancels the timer before               *)
(***************************************************************************)
\* the queries the address bar or the search bar may hand the page
PageQueryPool == {QEmpty, QTrial, QArticle5}

\* the filter sets the search bar may hand the page
PageFilterPool ==
    {MkFilters(None, None, None, None), MkFilters(None, None, Some(<<FRights>>), None)}

\* the bodies of law.json the page is tried with
PageCollections ==
    {<<>>} \cup {<<a>> : a \in {b \in ArticlePool : b.article = 5}} \cup LongCollections

\* the number of changes of query or filters the user makes
MaxChanges == 2

\* setTimeout(() => { ... }, 250) of the useMemo callback, with the query,
\* filters and articles of the render that ran it
Timer(p) ==
    Some([pending |-> TRUE, query |-> p.query, filters |-> p.filters,
          articles |-> p.articles])

\* the passive effects of the last render run: the cleanup the effect before
\* returned clears its timer, the new cleanup holds the timer of this render
Flush(p) ==
    IF p.fresh # None THEN [p EXCEPT !.armed = p.fresh, !.fresh = None] ELSE p

\* React renders the component: pending effects run first; when query, filters
\* or articles changed, useMemo runs its callback and arms a timer
Render(p, depsChanged) ==
    LET q == Flush(p)
    IN  IF depsChanged THEN [q EXCEPT !.fresh = Timer(q)] ELSE q

\* articles.slice(0, 4).map(article => ({ ...article }))
FirstFour(items) == [i \in 1..Len(SliceFirst(items, BrowseCount)) |-> CopyOf(items[i])]

\* the component mounts: useState takes the query of the address bar, the
\* first render arms a timer, the mount effect calls initializeApp, which
\* calls lawSearch.initialize() and waits for it
mount ==
    /\ page.phase = "unmounted"
    /\ pc = "new"
    /\ call.op = "none"
    /\ \E q \in PageQueryPool :
          page' = [NoPage EXCEPT !.phase = "awaiting", !.query = q,
                                 !.armed = Timer([NoPage EXCEPT !.query = q])]
    /\ pc' = "fetching"
    /\ UNCHANGED <<articles, fuse, normalizedCache, call, filterArg, out, storage, added>>

\* initializeApp resumes behind its await: the try block shows the loaded
\* articles, the catch block reports the failure; finally the page is shown
initializeAppResume ==
    /\ page.phase = "awaiting"
    /\ pc \in {"ready", "failed"}
    /\ page' =
          IF initializeResult.rejected
          THEN Render([page EXCEPT !.phase = "shown", !.loadErrors = @ + 1], FALSE)
          ELSE Render([page EXCEPT !.phase = "shown",
                                   !.articles = initializeResult.value,
                                   !.query = <<>>,
                                   !.results = FirstFour(initializeResult.value)], TRUE)
    /\ UNCHANGED <<pc, articles, fuse, normalizedCache, call, filterArg, out, storage, added>>

\* the timer the cleanup holds fires: its callback runs performSearch on the
\* query of its render, or shows the first four articles of its render
timerFires ==
    /\ \E t \in page.armed :
       \E r \in {search(normalizedCache, articles, fuse, t.query, t.filters, FALSE, <<>>)} :
       \E searched \in {Trim(t.query) # <<>>} :
       \E shown \in {IF ~searched THEN FirstFour(t.articles)
                     ELSE IF r.threw THEN <<>> ELSE r.value} :
       \E ended \in {[page EXCEPT
                         !.armed = Some([t EXCEPT !.pending = FALSE]),
                         !.results = shown,
                         !.searchErrors = IF searched /\ r.threw THEN @ + 1 ELSE @,
                         !.ran = Some([query |-> t.query, filters |-> t.filters,
                                       searched |-> searched,
                                       superseded |-> page.fresh # None])]} :
          /\ t.pending
          /\ page' = Flush(ended)
          /\ normalizedCache' = IF searched
                                THEN searchCache(normalizedCache, articles, fuse, t.query, FALSE)
                                ELSE normalizedCache
    /\ UNCHANGED <<pc, articles, fuse, call, filterArg, out, storage, added>>

\* the effects of the last render run before anything else happens
flushEffects ==
    /\ page.fresh # None
    /\ page' = Flush(page)
    /\ UNCHANGED <<pc, articles, fuse, normalizedCache, call, filterArg, out, storage, added>>

\* the search bar calls onQueryChange, which is setQuery
onQueryChange ==
    /\ page.phase = "shown"
    /\ page.changes < MaxChanges
    /\ \E q \in PageQueryPool \ {page.query} :
          page' = Render([page EXCEPT !.query = q, !.changes = @ + 1], TRUE)
    /\ UNCHANGED <<pc, articles, fuse, normalizedCache, call, filterArg, out, storage, added>>

\* the search bar calls onSearch, which is handleSearch
handleSearch ==
    /\ page.phase = "shown"
    /\ page.changes < MaxChanges
    /\ \E q \in PageQueryPool \ {page.query} :
          page' = Render([page EXCEPT
                             !.query = q,
                             !.results = IF Trim(q) # Trim(page.query) THEN <<>> ELSE @,
                             !.changes = @ + 1], TRUE)
    /\ UNCHANGED <<pc, articles, fuse, normalizedCache, call, filterArg, out, storage, added>>

\* the search bar calls onFilterChange, which is handleFilterChange
handleFilterChange ==
    /\ page.phase = "shown"
    /\ page.changes < MaxChanges
    /\ \E f \in PageFilterPool :
          page' = Render([page EXCEPT !.filters = f, !.changes = @ + 1], TRUE)
    /\ UNCHANGED <<pc, articles, fuse, normalizedCache, call, filterArg, out, storage, added>>

pageJsonResolved == jsonResolvedWith(PageCollections)

PageNext ==
    \/ mount
    \/ fetchResolved
    \/ fetchRejected
    \/ jsonRejected
    \/ pageJsonResolved
    \/ jsonResolvedNullRecord
    \/ jsonResolvedNonArray
    \/ initializeAppResume
    \/ timerFires
    \/ flushEffects
    \/ onQueryChange
    \/ handleSearch
    \/ handleFilterChange

PageSpec == Init /\ [][PageNext]_vars

(***************************************************************************)
(* The calls that classify, normalize and highlight a text                 *)
(***************************************************************************)
QUnbalancedFairTrial == <<"\"", "f", "a", "i", "r", " ", "t", "r", "i", "a", "l">>
QMetaChars == <<"a", "(", "+", " ", "[", "b">>
QCafe == <<"C", "a", "f", "E_acute", " ", " ", "a", "u", "\t">>

\* the characters of the generated texts
TextChars == {"\"", "a", " ", "^", "E_acute", "5", "."}

\* the length of the generated texts
MaxTextLen == 2

\* the texts handed to normalize, buildQueryMeta and highlightSearchTerms
TextPool ==
    QueryPool
    \cup {QUnbalancedFairTrial, QMetaChars, QCafe}
    \cup UNION {[1..k -> TextChars] : k \in 0..MaxTextLen}

\* highlightSearchTerms(text, query): the branch it takes and the sources it
\* interpolates into its regular expression (the model keeps these, not the
\* marked text)
highlightSearchTerms(c, query) ==
    LET exactQuery == Trim(query)
        queryMeta == buildQueryMeta(c, exactQuery)
    IN  IF exactQuery = <<>>
        THEN [branch |-> "unchanged", sources |-> <<>>]
        ELSE IF queryMeta.isArticlePattern /\ queryMeta.articleNumber # None
        THEN [branch |-> "article",
              sources |-> <<NumberToString(The(queryMeta.articleNumber))>>]
        ELSE IF queryMeta.isQuoted
        THEN [branch |-> "quoted", sources |-> <<escapeRegex(queryMeta.normalizedQuery)>>]
        ELSE IF Len(queryMeta.tokens) = 1
        THEN [branch |-> "single", sources |-> <<escapeRegex(queryMeta.tokens[1])>>]
        ELSE [branch |-> "multi",
              sources |-> [i \in 1..Len(queryMeta.tokens) |->
                              escapeRegex(queryMeta.tokens[i])]]

\* the texts a call is tried with: any text while the cache is empty; on a
\* filled cache the texts it holds and the texts it maps them to
CallTexts ==
    IF DOMAIN normalizedCache = {} THEN TextPool
    ELSE DOMAIN normalizedCache \cup {normalizedCache[k] : k \in DOMAIN normalizedCache}

TextCall(op, text) ==
    [op |-> op, query |-> text, filters |-> NoFilters, useFuzzy |-> FALSE,
     fuseOrder |-> <<>>]

\* lawSearch.normalize(text)
normalizeCall ==
    /\ call.op = "none"
    /\ \E text \in CallTexts :
          /\ call' = TextCall("normalize", text)
          /\ out' = Returned(normalize(normalizedCache, text))
          /\ normalizedCache' = CacheAfter(normalizedCache, {text})
    /\ UNCHANGED <<pc, articles, fuse, filterArg>>
    /\ UNCHANGED outerVars

\* lawSearch.buildQueryMeta(query)
buildQueryMetaCall ==
    /\ call.op = "none"
    /\ \E query \in CallTexts :
          /\ call' = TextCall("buildQueryMeta", query)
          /\ out' = Returned(buildQueryMeta(normalizedCache, query))
          /\ normalizedCache' = CacheAfter(normalizedCache, QueryCacheKeys(query))
    /\ UNCHANGED <<pc, articles, fuse, filterArg>>
    /\ UNCHANGED outerVars

\* highlightSearchTerms(text, query)
highlightSearchTermsCall ==
    /\ call.op = "none"
    /\ \E query \in CallTexts :
          /\ call' = TextCall("highlightSearchTerms", query)
          /\ out' = Returned(highlightSearchTerms(normalizedCache, query))
          /\ normalizedCache' =
                IF Trim(query) = <<>> THEN normalizedCache
                ELSE CacheAfter(normalizedCache, QueryCacheKeys(Trim(query)))
    /\ UNCHANGED <<pc, articles, fuse, filterArg>>
    /\ UNCHANGED outerVars

QueryNext ==
    \/ normalizeCall
    \/ buildQueryMetaCall
    \/ highlightSearchTermsCall
    \/ callDone
    \/ clearSearchCache

QuerySpec == Init /\ [][QueryNext]_vars

(***************************************************************************)
(* searchHistory: the recent queries kept in localStorage                  *)
(***************************************************************************)
\* JSON.stringify of one character of a string
JsonEscapeChar(c) ==
    CASE c = "\"" -> <<"\\", "\"">>
      [] c = "\\" -> <<"\\", "\\">>
      [] c = "\n" -> <<"\\", "n">>
      [] c = "\t" -> <<"\\", "t">>
      [] OTHER -> <<c>>

RECURSIVE JsonEscape(_)
JsonEscape(str) ==
    IF str = <<>> THEN <<>> ELSE JsonEscapeChar(Head(str)) \o JsonEscape(Tail(str))

RECURSIVE JsonElements(_)
JsonElements(list) ==
    IF list = <<>> THEN <<>>
    ELSE <<"\"">> \o JsonEscape(Head(list)) \o <<"\"">>
         \o (IF Len(list) = 1 THEN <<>> ELSE <<",">> \o JsonElements(Tail(list)))

\* JSON.stringify of an array of strings
JsonStringify(list) == <<"[">> \o JsonElements(list) \o <<"]">>

JsonFailure == [ok |-> FALSE, value |-> <<>>, next |-> 0]

\* the character an escape sequence stands for
JsonUnescape(e) ==
    CASE e = "n" -> "\n"
      [] e = "t" -> "\t"
      [] OTHER -> e

\* JSON.parse inside a string literal, from position i, up to its closing quote
RECURSIVE JsonParseString(_, _, _)
JsonParseString(text, i, acc) ==
    IF i > Len(text) THEN JsonFailure
    ELSE IF text[i] = "\"" THEN [ok |-> TRUE, value |-> acc, next |-> i + 1]
    ELSE IF text[i] = "\\"
    THEN IF i + 1 <= Len(text) /\ text[i + 1] \in {"\"", "\\", "n", "t"}
         THEN JsonParseString(text, i + 2, Append(acc, JsonUnescape(text[i + 1])))
         ELSE JsonFailure
    ELSE IF text[i] \in {"\n", "\t"} THEN JsonFailure
    ELSE JsonParseString(text, i + 1, Append(acc, text[i]))

\* JSON.parse behind "[" or ",": a string literal, then "," or the closing "]"
RECURSIVE JsonParseElements(_, _, _)
JsonParseElements(text, i, acc) ==
    IF i > Len(text) \/ text[i] # "\"" THEN JsonFailure
    ELSE LET str == JsonParseString(text, i + 1, <<>>)
         IN  IF ~str.ok \/ str.next > Len(text) THEN JsonFailure
             ELSE IF text[str.next] = ","
             THEN JsonParseElements(text, str.next + 1, Append(acc, str.value))
             ELSE IF text[str.next] = "]" /\ str.next = Len(text)
             THEN [ok |-> TRUE, value |-> Append(acc, str.value), next |-> str.next + 1]
             ELSE JsonFailure

\* JSON.parse of the text of an array of strings
JsonParse(text) ==
    IF text = <<"[", "]">> THEN [ok |-> TRUE, value |-> <<>>, next |-> 3]
    ELSE IF text # <<>> /\ text[1] = "[" THEN JsonParseElements(text, 2, <<>>)
    ELSE JsonFailure

\* .slice(0, 5)
HistoryLimit_OneMore == 5 + 1
HistoryLimit == 5

\* searchHistory.get() on the store st
historyGet(st) ==
    LET text == IF st = None \/ The(st) = <<>> THEN <<"[", "]">> ELSE The(st)
    IN  IF JsonParse(text).ok THEN JsonParse(text).value ELSE <<>>

\* history.filter(q => q !== query)
Without(list, query) == SelectSeqBy(list, Elements(list) \ {query})

\* the store after searchHistory.add(query)
historyAdd(st, query) ==
    IF Trim(query) = <<>> THEN st
    ELSE Some(JsonStringify(SliceFirst(<<query>> \o Without(historyGet(st), query),
                                       HistoryLimit)))

HQuote == <<"\"">>
HBackslash == <<"\\">>
HLeadingSpace == <<" ", "a">>
HTwoLines == <<"a", "\n", "\"", "b">>
HLetterA == <<"a">>
HComma == <<"\"", ",", "\"">>

\* the queries searchHistory.add is called with
HistoryQueryPool ==
    {QEmpty, QSpace, HQuote, HBackslash, HLeadingSpace, HTwoLines, HLetterA, HComma}

\* searchHistory.add(query)
historyAddCall ==
    /\ \E query \in HistoryQueryPool :
          /\ call' = TextCall("historyAdd", query)
          /\ storage' = historyAdd(storage, query)
          /\ added' = IF Trim(query) = <<>> THEN added
                      ELSE <<query>> \o Without(added, query)
    /\ out' = NoOut
    /\ UNCHANGED <<pc, articles, fuse, normalizedCache, filterArg, page>>

\* searchHistory.get()
historyGetCall ==
    /\ call' = TextCall("historyGet", <<>>)
    /\ out' = Returned(historyGet(storage))
    /\ UNCHANGED <<pc, articles, fuse, normalizedCache, filterArg, page, storage, added>>

\* searchHistory.clear()
historyClearCall ==
    /\ call' = TextCall("historyClear", <<>>)
    /\ storage' = None
    /\ added' = <<>>
    /\ out' = NoOut
    /\ UNCHANGED <<pc, articles, fuse, normalizedCache, filterArg, page>>

HistoryNext ==
    \/ historyAddCall
    \/ historyGetCall
    \/ historyClearCall

HistorySpec == Init /\ [][HistoryNext]_vars

(***************************************************************************)
(* Calls on a filled cache: searches and classifications one after the     *)
(* other, on a loaded collection, with or without clearSearchCache between *)
(***************************************************************************)
\* the queries of these calls; one of them is a title of the collection
CacheQueryPool == {QTrial, QTrialFair, QQuotedFairTrial, QArticle5, StrFairTrial}

\* lawSearch.search(query, filters) whatever the cache holds
cachedSearchCall ==
    /\ call.op = "none"
    /\ pc = "ready"
    /\ \E query \in CacheQueryPool, filters \in PageFilterPool :
          /\ call' = [op |-> "search", query |-> query, filters |-> filters,
                      useFuzzy |-> FALSE, fuseOrder |-> <<>>]
          /\ out' = search(normalizedCache, articles, fuse, query, filters, FALSE, <<>>)
          /\ filterArg' = searchFilterArg(normalizedCache, articles, fuse, query, FALSE, <<>>)
          /\ normalizedCache' = searchCache(normalizedCache, articles, fuse, query, FALSE)
    /\ UNCHANGED <<pc, articles, fuse>>
    /\ UNCHANGED outerVars

\* lawSearch.buildQueryMeta(query) whatever the cache holds
cachedBuildQueryMetaCall ==
    /\ call.op = "none"
    /\ \E query \in CacheQueryPool :
          /\ call' = TextCall("buildQueryMeta", query)
          /\ out' = Returned(buildQueryMeta(normalizedCache, query))
          /\ normalizedCache' = CacheAfter(normalizedCache, QueryCacheKeys(query))
    /\ UNCHANGED <<pc, articles, fuse, filterArg>>
    /\ UNCHANGED outerVars

CacheNext ==
    \/ initialize
    \/ fetchResolved
    \/ pageJsonResolved
    \/ cachedSearchCall
    \/ cachedBuildQueryMetaCall
    \/ callDone
    \/ clearSearchCache

CacheSpec == Init /\ [][CacheNext]_vars

(***************************************************************************)
(* Vocabulary of the properties                                            *)
(***************************************************************************)
\* every character of the query is whitespace
IsBlank(query) == \A i \in 1..Len(query) : IsWhitespace(query[i])

\* a default-path search that ran on a loaded collection
ExactCall ==
    /\ call.op = "search"
    /\ pc = "ready"
    /\ ~call.useFuzzy
    /\ ~IsBlank(call.query)

\* the call carried no filter
Unfiltered == call.filters \in {NoFilters, MkFilters(None, None, None, None)}

Loaded == Elements(articles.items)

ResultNumbers == {out.value[i].article : i \in 1..Len(out.value)}

ScoreOf(result) == The(result.score)

\* the descriptor of the query of the call
CallMeta == buildQueryMeta(EmptyCache, Trim(call.query))

\* position p of s lies between a word character and a non-word character
\* (or an end of s)
AtWordEdge(s, p) ==
    (p = 0 \/ ~IsWordChar(s[p])) # (p = Len(s) \/ ~IsWordChar(s[p + 1]))

\* t occurs in s
ContainsText(s, t) == \E i \in 0..(Len(s) - Len(t)) : SubSeq(s, i + 1, i + Len(t)) = t

\* t occurs in s with a word edge on either side
OccursAsWholeWord(t, s) ==
    \E i \in 0..(Len(s) - Len(t)) :
        /\ SubSeq(s, i + 1, i + Len(t)) = t
        /\ AtWordEdge(s, i)
        /\ AtWordEdge(s, i + Len(t))

\* s holds, from offset i, "article", optional whitespace and the digits of n,
\* and no digit follows
RefersToArticleAt(n, s, i) ==
    \E k \in 0..Len(s) :
        LET digits == NumberToString(n)
            from == i + Len(ArticleWord) + k
        IN  /\ from + Len(digits) <= Len(s)
            /\ SubSeq(s, i + 1, i + Len(ArticleWord)) = ArticleWord
            /\ \A j \in (i + Len(ArticleWord) + 1)..from : s[j] = " "
            /\ SubSeq(s, from + 1, from + Len(digits)) = digits
            /\ (from + Len(digits) < Len(s) => s[from + Len(digits) + 1] \notin DigitChars)

\* the normalized text s refers to article n
RefersToArticle(n, s) == \E i \in 0..Len(s) : AtWordEdge(s, i) /\ RefersToArticleAt(n, s, i)

NormalizedTitleOf(a) == NormalizeText(a.title)
NormalizedSearchableOf(a) == NormalizeText(SearchableFields(a))

\* an article with another number that a query for article n also returns
CrossRefers(b, n) ==
    \/ RefersToArticle(n, NormalizedTitleOf(b))
    \/ RefersToArticle(n, NormalizedSearchableOf(b))

(***************************************************************************)
(* C1                                                                      *)
(***************************************************************************)
\* the call asked, without filters, for "Article " + a.article
AskedByLabel(a) ==
    /\ ExactCall
    /\ Unfiltered
    /\ a.articleNumberLabel # None
    /\ call.query = The(a.articleNumberLabel)

ArtDotPrefix == <<"a", "r", "t", ".", " ">>

\* C2: a query that is only the digits of N, or "art. N", is classified as
\* article-number mode with articleNumber = N, and over a collection whose
\* article N does not mention N in its title or text it returns that article
\* alone, with the score of the top of the article-number ladder.
C2_BareNumberIsArticleNumberMode ==
    \A a \in Loaded :
        ( /\ ExactCall
          /\ Unfiltered
          /\ Trim(call.query) \in {NumberToString(a.article),
                                   ArtDotPrefix \o NumberToString(a.article)}
          /\ ~ContainsText(NormalizedTitleOf(a), NumberToString(a.article))
          /\ ~ContainsText(NormalizeText(a.text), NumberToString(a.article)) )
        => /\ CallMeta.isArticlePattern
           /\ CallMeta.articleNumber = Some(a.article)
           /\ ~out.threw
           /\ Len(out.value) = 1
           /\ out.value[1].article = a.article
           /\ out.value[1].score = Some(ScoreExactNumber)

(***************************************************************************)
(* C3                                                                      *)
(***************************************************************************)
\* the rung of an article on the article-number ladder for number n
LadderRung(a, n) ==
    IF a.article = n THEN 1
    ELSE IF RefersToArticleAt(n, NormalizedTitleOf(a), 0) THEN 2
    ELSE IF RefersToArticle(n, NormalizedTitleOf(a)) THEN 3
    ELSE 4

\* C3: in article-number mode, within one result set, the article whose
\* identifier is the number scores strictly above every other result, and
\* among the others title-starts-with outranks title-contains, which outranks
\* text-only.
C3_ArticleNumberLadder ==
    (ExactCall /\ CallMeta.isArticlePattern /\ ~out.threw) =>
        \A i, j \in 1..Len(out.value) :
            LadderRung(out.value[i], The(CallMeta.articleNumber))
              < LadderRung(out.value[j], The(CallMeta.articleNumber))
            => ScoreOf(out.value[i]) > ScoreOf(out.value[j])

(***************************************************************************)
(* C4                                                                      *)
(***************************************************************************)
\* the hit of the query of the call lies in the title of a
TitleHit(a) ==
    LET meta == CallMeta
        title == NormalizedTitleOf(a)
    IN  IF meta.regexPatterns.wholeWord # None
        THEN OccursAsWholeWord(meta.tokens[1], title)
        ELSE IF meta.regexPatterns.quotedPhrase # None
        THEN ContainsText(title, meta.normalizedQuery)
        ELSE /\ meta.regexPatterns.andTerms # None
             /\ \A t \in 1..Len(meta.tokens) : OccursAsWholeWord(meta.tokens[t], title)

UnquotedCall ==
    ~(StartsWithChar(Trim(call.query), "\"") /\ EndsWithChar(Trim(call.query), "\""))

CallTokens == SplitTokens(NormalizeText(Trim(call.query)))

\* the normalized query is "article", optional whitespace, digits
IsArticleReference(q) ==
    /\ Len(q) > Len(ArticleWord)
    /\ SubSeq(q, 1, Len(ArticleWord)) = ArticleWord
    /\ IsDigits(DropWhitespace(SubSeq(q, Len(ArticleWord) + 1, Len(q))))

SingleTokenCall == ExactCall /\ Unfiltered /\ UnquotedCall /\ Len(CallTokens) = 1

MultiTokenCall == ExactCall /\ Unfiltered /\ UnquotedCall /\ Len(CallTokens) >= 2

\* C5 as stated: for every unquoted single-token query t, an article is in
\* the result iff t occurs as a whole word in its normalized searchable text.
C5_SingleTokenIffWholeWord ==
    SingleTokenCall =>
        /\ ~out.threw
        /\ \A a \in Loaded :
              a.article \in ResultNumbers
                  <=> OccursAsWholeWord(CallTokens[1], NormalizedSearchableOf(a))

\* C5 amended: for every unquoted single-token query t that is not an
\* article-number reference ("article" directly followed by digits), an
\* article is in the result iff t occurs as a whole word in its normalized
\* searchable text.
C5_SingleTokenIffWholeWordUnlessArticleRef ==
    (SingleTokenCall /\ ~IsArticleReference(NormalizeText(Trim(call.query)))) =>
        /\ ~out.threw
        /\ \A a \in Loaded :
              a.article \in ResultNumbers
                  <=> OccursAsWholeWord(CallTokens[1], NormalizedSearchableOf(a))

\* a single-token search left out an article that holds the token only inside
\* a longer word, and returned another one
C5_Witness ==
    /\ SingleTokenCall
    /\ ~IsArticleReference(NormalizeText(Trim(call.query)))
    /\ out.value # <<>>
    /\ \E a \in Loaded :
          /\ ContainsText(NormalizedSearchableOf(a), CallTokens[1])
          /\ ~OccursAsWholeWord(CallTokens[1], NormalizedSearchableOf(a))
          /\ a.article \notin ResultNumbers

AllTokensOccur(a) ==
    \A t \in 1..Len(CallTokens) :
        OccursAsWholeWord(CallTokens[t], NormalizedSearchableOf(a))

\* C6 as stated: for every unquoted query of two or more tokens, an article
\* matches iff every token occurs as a whole word in its normalized
\* searchable text.
C6_MultiTokenIffAllWords ==
    MultiTokenCall =>
        /\ ~out.threw
        /\ \A a \in Loaded : a.article \in ResultNumbers <=> AllTokensOccur(a)

\* C6 amended: for every unquoted query of two or more tokens that is not an
\* article-number reference ("article", whitespace, digits), an article
\* matches iff every token occurs as a whole word in its normalized
\* searchable text, in any order and at any distance.
C6_MultiTokenIffAllWordsUnlessArticleRef ==
    (MultiTokenCall /\ ~IsArticleReference(NormalizeText(Trim(call.query)))) =>
        /\ ~out.threw
        /\ \A a \in Loaded : a.article \in ResultNumbers <=> AllTokensOccur(a)

\* a multi-token search returned an article and left out one that holds some
\* of the tokens but not all
C6_Witness ==
    /\ MultiTokenCall
    /\ ~IsArticleReference(NormalizeText(Trim(call.query)))
    /\ out.value # <<>>
    /\ \E a \in Loaded :
          /\ a.article \notin ResultNumbers
          /\ \E t \in 1..Len(CallTokens) :
                OccursAsWholeWord(CallTokens[t], NormalizedSearchableOf(a))

(***************************************************************************)
(* C7                                                                      *)
(***************************************************************************)
\* C7: the default-path result is ordered by score descending, and results
\* of equal score by article identifier ascending, whatever the load order.
C7_TiesByIdentifier ==
    (ExactCall /\ ~out.threw) =>
        \A i, j \in 1..Len(out.value) :
            i < j =>
                \/ ScoreOf(out.value[i]) > ScoreOf(out.value[j])
                \/ /\ ScoreOf(out.value[i]) = ScoreOf(out.value[j])
                   /\ out.value[i].article < out.value[j].article

(***************************************************************************)
(* C8                                                                      *)
(***************************************************************************)
\* C8: a blank query returns the first min(4, n) articles of the loaded
\* collection in load order, whatever the filters and useFuzzy.
C8_BlankQueryBrowsesFirstFour ==
    (call.op = "search" /\ pc = "ready" /\ IsBlank(call.query)) =>
        /\ ~out.threw
        /\ Len(out.value) = (IF Len(articles.items) < 4 THEN Len(articles.items) ELSE 4)
        /\ \A i \in 1..Len(out.value) :
              \A f \in DOMAIN articles.items[i] : out.value[i][f] = articles.items[i][f]

\* a blank fuzzy query on more than four articles, with a filter that some of
\* the returned articles do not pass
C8_Witness ==
    /\ call.op = "search"
    /\ pc = "ready"
    /\ IsBlank(call.query)
    /\ call.query # <<>>
    /\ call.useFuzzy
    /\ Len(articles.items) > 4
    /\ call.filters.lawSource = Some(StrPenal)
    /\ \E i \in 1..Len(out.value) : out.value[i].lawSource # Some(StrPenal)

(***************************************************************************)
(* C9                                                                      *)
(***************************************************************************)
LowerText(s) == [i \in 1..Len(s) |-> LowerChar(s[i])]

ContainsIgnoringCase(s, t) == ContainsText(LowerText(s), LowerText(t))

\* the predicates of C9 as stated: every present field constrains
KeptAsStated(r, f) ==
    f.defined =>
        /\ f.chapter # None => ContainsIgnoringCase(r.chapter, The(f.chapter))
        /\ f.part # None => ContainsIgnoringCase(r.part, The(f.part))
        /\ (f.tags # None /\ The(f.tags) # <<>>) =>
              \E t \in Elements(The(f.tags)) :
                  \E a \in Elements(r.tags) : ContainsIgnoringCase(a, t)
        /\ f.lawSource # None => r.lawSource = f.lawSource

\* the predicates of C9 amended: an empty lawSource does not constrain
KeptAmended(r, f) ==
    f.defined =>
        /\ f.chapter # None => ContainsIgnoringCase(r.chapter, The(f.chapter))
        /\ f.part # None => ContainsIgnoringCase(r.part, The(f.part))
        /\ (f.tags # None /\ The(f.tags) # <<>>) =>
              \E t \in Elements(The(f.tags)) :
                  \E a \in Elements(r.tags) : ContainsIgnoringCase(a, t)
        /\ (f.lawSource # None /\ The(f.lawSource) # <<>>) => r.lawSource = f.lawSource

\* output is the subsequence of input at the positions of kept, in order
IsSubsequenceAt(input, kept, output) ==
    /\ Len(output) = Cardinality(kept)
    /\ \A j \in 1..Len(output) :
          output[j] = input[CHOOSE i \in kept : Cardinality({k \in kept : k <= i}) = j]

FilterCall == call.op = "search" /\ filterArg # None /\ ~out.threw

C10_NoLoadNoResultsNoThrow ==
    (call.op = "search" /\ pc \in {"new", "failed"}) =>
        /\ ~out.threw
        /\ out.value = <<>>

(***************************************************************************)
(* C11: a failed load is signalled to the caller                           *)
(***************************************************************************)
\* what initialize() settles with after it loaded the empty array
EmptyLoadResult == [rejected |-> FALSE, value |-> <<>>]

\* C11: when the fetch or the parse of the collection fails, initialize()
\* settles in a way its caller can tell from a successful load of an empty
\* collection, and initializeApp reaches its error branch exactly once (and
\* not at all after a successful load).
C11_LoadFailureIsReported ==
    /\ pc = "failed" => initializeResult # EmptyLoadResult
    /\ (page.phase = "shown" /\ pc = "failed") => page.loadErrors = 1
    /\ (page.phase = "shown" /\ pc = "ready") => page.loadErrors = 0

(***************************************************************************)
(* C12: every non-blank query classifies into exactly one match mode       *)
(***************************************************************************)
\* the predicate groups a descriptor carries
BuiltModes(regexPatterns) ==
    {m \in {"wholeWord", "article", "quotedPhrase", "andTerms"} :
        \/ m = "wholeWord" /\ regexPatterns.wholeWord # None
        \/ m = "article" /\ (regexPatterns.articlePattern # None
                             \/ regexPatterns.articleStartPattern # None)
        \/ m = "quotedPhrase" /\ regexPatterns.quotedPhrase # None
        \/ m = "andTerms" /\ regexPatterns.andTerms # None}

\* C12: for every query that is non-empty after trimming, buildQueryMeta
\* returns without throwing and exactly one of the predicate groups
\* wholeWord, articlePattern/articleStartPattern, quotedPhrase, andTerms is set.
C12_ExactlyOneMode ==
    (call.op = "buildQueryMeta" /\ Trim(call.query) # <<>>) =>
        /\ ~out.threw
        /\ Cardinality(BuiltModes(out.value.regexPatterns)) = 1

(***************************************************************************)
(* C13, C14: quoted queries                                                *)
(***************************************************************************)
\* the query of the call starts and ends with a double quote
QuotedCall ==
    /\ ExactCall
    /\ Unfiltered
    /\ StartsWithChar(Trim(call.query), "\"")
    /\ EndsWithChar(Trim(call.query), "\"")

\* the normalized text between the quotes
QuotedContent == NormalizeText(Slice1Minus1(Trim(call.query)))

\* C13: a query that starts and ends with a double quote and is no article
\* reference is evaluated as a phrase, also when it holds a single token: an
\* article is in the result iff the normalized phrase is a substring of its
\* normalized searchable text.
C13_QuotedIsPhraseMode ==
    (QuotedCall /\ ~IsArticleReference(QuotedContent)) =>
        /\ ~out.threw
        /\ \A a \in Loaded :
              a.article \in ResultNumbers
                  <=> ContainsText(NormalizedSearchableOf(a), QuotedContent)

\* the number a quoted article reference asks for
QuotedArticleNumber ==
    ParseInt(DropWhitespace(SubSeq(QuotedContent, Len(ArticleWord) + 1, Len(QuotedContent))))

\* the score of the article-number branch for article b and number n
ArticleBranchScore(b, n) ==
      (IF b.article = n THEN ScoreExactNumber ELSE 0)
    + (IF RefersToArticleAt(n, NormalizedTitleOf(b), 0) THEN ScoreArticleStart ELSE 0)
    + (IF RefersToArticle(n, NormalizedTitleOf(b)) THEN ScoreArticleTitle ELSE 0)
    + (IF RefersToArticle(n, NormalizedSearchableOf(b)) THEN ScoreArticleText ELSE 0)

\* C14: a quoted query whose content is "article", optional whitespace and the
\* digits of N is classified in article-number mode with articleNumber = N and
\* without a quotedPhrase predicate, and it is matched and scored by the
\* article-number branch.
C14_QuotedArticleReferenceIsArticleMode ==
    (QuotedCall /\ IsArticleReference(QuotedContent)) =>
        /\ CallMeta.isArticlePattern
        /\ CallMeta.articleNumber = Some(QuotedArticleNumber)
        /\ BuiltModes(CallMeta.regexPatterns) = {"article"}
        /\ ~out.threw
        /\ \A b \in Loaded :
              b.article \in ResultNumbers
                  <=> (b.article = QuotedArticleNumber \/ CrossRefers(b, QuotedArticleNumber))
        /\ \A i \in 1..Len(out.value) :
              ScoreOf(out.value[i]) = ArticleBranchScore(out.value[i], QuotedArticleNumber)

C14_Witness ==
    /\ QuotedCall
    /\ IsArticleReference(QuotedContent)
    /\ \E i \in 1..Len(out.value) : out.value[i].article = QuotedArticleNumber
    /\ \E i \in 1..Len(out.value) : out.value[i].article # QuotedArticleNumber
    /\ \E b \in Loaded : b.article \notin ResultNumbers
    /\ \E i \in 1..Len(out.value) :
          ~ContainsText(NormalizedSearchableOf(out.value[i]), QuotedContent)

(***************************************************************************)
(* C15: the stored history                                                 *)
(***************************************************************************)
\* the place of query in list
PlaceIn(list, query) == CHOOSE i \in 1..Len(list) : list[i] = query

\* at most 5 entries, no query twice, the more recently added query in front,
\* the last added non-blank query at index 0
HistoryBoundedDistinctRecentFirst ==
    LET list == historyGet(storage)
    IN  /\ Len(list) <= 5
        /\ \A i, j \in 1..Len(list) : i # j => list[i] # list[j]
        /\ Elements(list) \subseteq Elements(added)
        /\ \A i, j \in 1..Len(list) :
              i < j => PlaceIn(added, list[i]) < PlaceIn(added, list[j])
        /\ \A i \in 1..Len(list) : PlaceIn(added, list[i]) <= 5
        /\ (Len(added) >= 5 => Len(list) = 5)
        /\ (added # <<>> => list # <<>> /\ list[1] = added[1])
        /\ (call.op = "historyAdd" /\ ~IsBlank(call.query) => list[1] = call.query)
        /\ (call.op = "historyGet" => out = Returned(list))

\* an add with an empty or whitespace-only query leaves the stored list unchanged
BlankAddChangesNothing ==
    (call'.op = "historyAdd" /\ IsBlank(call'.query))
        => historyGet(storage') = historyGet(storage) /\ storage' = storage

\* C15: starting from an empty store, after any sequence of add and clear
\* calls, get() returns at most 5 entries, no query occurs twice, the entries
\* are ordered by most recent add first (the last added non-blank query is at
\* index 0), and an add with a blank query leaves the stored list unchanged.
C15_History ==
    /\ []HistoryBoundedDistinctRecentFirst
    /\ [][BlankAddChangesNothing]_vars

C15_Witness ==
    /\ Len(added) > 5
    /\ Len(historyGet(storage)) = 5
    /\ call.op = "historyAdd"
    /\ \E i \in 2..5 : historyGet(storage)[i] = HComma

(***************************************************************************)
(* C16: a search depends on its arguments and the collection only          *)
(***************************************************************************)
\* the result of the search of the call is the result on an empty cache
ResultIgnoresCache ==
    (call.op = "search" /\ pc = "ready" /\ ~call.useFuzzy) =>
        out = search(EmptyCache, articles, fuse, call.query, call.filters, FALSE, <<>>)

\* a call leaves the loaded collection as it is
CollectionStays == pc = "ready" => pc' = "ready" /\ articles' = articles

\* C16: after a successful load the result of search(q, f, false) depends only
\* on q, f and the loaded collection, whatever calls of search, buildQueryMeta
\* and clearSearchCache came before and whatever the cache holds, and no call
\* changes the loaded collection.
C16_SearchDependsOnArgumentsOnly ==
    /\ []ResultIgnoresCache
    /\ [][CollectionStays]_vars

\* a search that found something on a cache an earlier call with another
\* query had filled
C16_Witness ==
    /\ call.op = "search"
    /\ pc = "ready"
    /\ out.value # <<>>
    /\ \E q \in CacheQueryPool :
          /\ QueryCacheKeys(q) \cap QueryCacheKeys(call.query) = {}
          /\ QueryCacheKeys(q) \subseteq DOMAIN normalizedCache
    /\ \E a \in Loaded : a.title = call.query

(***************************************************************************)
(* C17: normalize is idempotent and blind to case, marks and spacing       *)
(***************************************************************************)
\* s with its letters in upper case
InUpperCase(s) ==
    [i \in 1..Len(s) |->
        IF s[i] = "e_acute" THEN "E_acute"
        ELSE IF \E u \in UpperLetters : LowerChar(u) = s[i]
        THEN CHOOSE u \in UpperLetters : LowerChar(u) = s[i]
        ELSE s[i]]

\* s with an acute accent on each of its letters
RECURSIVE WithAccents(_)
WithAccents(s) ==
    IF s = <<>> THEN <<>>
    ELSE (IF Head(s) \in LowerLetters \cup UpperLetters
          THEN <<Head(s), "comb_acute">> ELSE <<Head(s)>>) \o WithAccents(Tail(s))

\* s with each whitespace character made a longer run, and whitespace around it
RECURSIVE WithLongerRuns(_)
WithLongerRuns(s) ==
    IF s = <<>> THEN <<>>
    ELSE (IF IsWhitespace(Head(s)) THEN <<"\t", Head(s), " ">> ELSE <<Head(s)>>)
         \o WithLongerRuns(Tail(s))

Respaced(s) == <<" ", "\n">> \o WithLongerRuns(s) \o <<"\t">>

ModeOfBranch(branch) ==
    CASE branch = "article" -> {"article"}
      [] branch = "quoted" -> {"quotedPhrase"}
      [] branch = "single" -> {"wholeWord"}
      [] branch = "multi" -> {"andTerms"}
      [] OTHER -> {}

\* C18: for every non-empty query, the branch highlightSearchTerms takes
\* (article number, quoted phrase, single whole word, multi-token whole words)
\* is the mode of the predicate group buildQueryMeta built and matchItem
\* evaluates for that query, also for a quoted query holding a single token.
C18_HighlightModeIsMatchMode ==
    (call.op = "highlightSearchTerms" /\ Trim(call.query) # <<>>) =>
        /\ ~out.threw
        /\ ModeOfBranch(out.value.branch)
             = BuiltModes(buildQueryMeta(EmptyCache, Trim(call.query)).regexPatterns)

(***************************************************************************)
(* C19: the debounce of the Index page                                     *)
(***************************************************************************)
\* the timers of the page that were set and have neither fired nor been cleared
PendingTimers ==
    {slot \in {"armed", "fresh"} :
        \/ slot = "armed" /\ page.armed # None /\ The(page.armed).pending
        \/ slot = "fresh" /\ page.fresh # None /\ The(page.fresh).pending}

\* C19: when the query or the filters change before the timer of the change
\* before has fired, that timer is cancelled: at most one timer is pending at
\* any time, and the callback of a superseded query is never run and never
\* writes results.
C19_OneTimerNoStaleSearch ==
    /\ Cardinality(PendingTimers) <= 1
    /\ page.ran # None => ~The(page.ran).superseded

====
